---- MODULE Spec2Model ----
(***************************************************************************)
(* A model of rlox: the bytecode chunk (chunk.rs), the constant pool       *)
(* (value.rs), the stack VM (vm.rs), the scanner (scanner.rs) and the      *)
(* compiler stub (compiler.rs).                                            *)
(*                                                                         *)
(* Offsets (ip, start, current, pool indices) are 0-based as in the Rust   *)
(* source; TLA+ sequences are 1-based, so element i of a Vec is seq[i+1].  *)
(* A Rust panic (index out of bounds, unwrap on None, "Invalid OpCode")    *)
(* ends the process; it is modelled as a terminal "panic" status.          *)
(***************************************************************************)
EXTENDS Integers, Sequences, FiniteSets, TLC

(***************************************************************************)
(* Bounds of the model.                                                    *)
(***************************************************************************)
\* API calls made on one Chunk in a behaviour of SpecChunk.
MaxCalls == 4
\* Emitter steps of the generated programs run by the VM.
MaxSteps == 4
\* Calls of VM::run on one VM value.
MaxRuns == 2
\* How far below its capacity a pre-filled constant pool starts.
PoolMargin == 1
\* Length of the enumerated source texts.
MaxSrc == 3
\* scan_token calls made beyond one per source character.
ExtraCalls == 2

(***************************************************************************)
(* Program constants.                                                      *)
(***************************************************************************)
\* The range of u8: add_constants casts the pool index `as u8`.
U8Range == 256

BoundedSeq(S, n) == UNION {[1..k -> S] : k \in 0..n}

(***************************************************************************)
(* value.rs: Value = f64.  A Value is modelled as a pair <<n, d>>:         *)
(*   d > 0         the rational n/d in lowest terms,                       *)
(*   <<1, 0>>      +infinity,   <<-1, 0>>  -infinity,   <<0, 0>>  NaN.     *)
(* The arithmetic is IEEE-754's on these (x/0 is an infinity, 0/0 and      *)
(* inf-inf are NaN); rounding and the sign of zero are not modelled.       *)
(***************************************************************************)
Sign(n) == IF n > 0 THEN 1 ELSE IF n < 0 THEN -1 ELSE 0

Abs(n) == IF n < 0 THEN -n ELSE n

RECURSIVE GCD(_, _)
GCD(a, b) == IF b = 0 THEN a ELSE GCD(b, a % b)

Norm(n, d) == LET g == GCD(Abs(n), d) IN <<n \div g, d \div g>>

Num(n) == <<n, 1>>

NaN == <<0, 0>>

Inf(s) == <<s, 0>>

IsNaN(v) == v[2] = 0 /\ v[1] = 0

IsInf(v) == v[2] = 0 /\ v[1] # 0

FNeg(v) == <<-v[1], v[2]>>

FAdd(a, b) ==
    IF IsNaN(a) \/ IsNaN(b) THEN NaN
    ELSE IF IsInf(a) THEN (IF IsInf(b) /\ b[1] # a[1] THEN NaN ELSE a)
    ELSE IF IsInf(b) THEN b
    ELSE Norm(a[1] * b[2] + b[1] * a[2], a[2] * b[2])

FSub(a, b) == FAdd(a, FNeg(b))

FMul(a, b) ==
    IF IsNaN(a) \/ IsNaN(b) THEN NaN
    ELSE IF IsInf(a) \/ IsInf(b)
         THEN (IF a[1] = 0 \/ b[1] = 0 THEN NaN ELSE Inf(Sign(a[1]) * Sign(b[1])))
    ELSE Norm(a[1] * b[1], a[2] * b[2])

FDiv(a, b) ==
    IF IsNaN(a) \/ IsNaN(b) THEN NaN
    ELSE IF IsInf(a)
         THEN (IF IsInf(b) THEN NaN ELSE Inf(a[1] * (IF b[1] < 0 THEN -1 ELSE 1)))
    ELSE IF IsInf(b) THEN Num(0)
    ELSE IF b[1] = 0 THEN (IF a[1] = 0 THEN NaN ELSE Inf(Sign(a[1])))
    ELSE Norm(a[1] * b[2] * Sign(b[1]), a[2] * Abs(b[1]))

(***************************************************************************)
(* value.rs: ValueArray { values: Vec<Value> }.                            *)
(***************************************************************************)
ValueArray_new == [values |-> <<>>]

\* write(value) -> usize: pushes, returns the count before the push.
ValueArray_write(va, value) ==
    [va |-> [values |-> Append(va.values, value)], ret |-> Len(va.values)]

ValueArray_free(va) == [values |-> <<>>]

\* read(index): called by Chunk::get_constant, not defined in value.rs;
\* the specification gives it as bounds-checked access.
ValueArray_read(va, index) ==
    IF index < Len(va.values)
    THEN [panic |-> FALSE, value |-> va.values[index + 1]]
    ELSE [panic |-> TRUE, value |-> NaN]

\* print_value(index): print!(values[index]); the index panics out of range.
ValueArray_print_value(va, index) ==
    IF index < Len(va.values)
    THEN [panic |-> FALSE, shown |-> <<va.values[index + 1]>>]
    ELSE [panic |-> TRUE, shown |-> <<>>]

(***************************************************************************)
(* chunk.rs: OpCode and Chunk { code, lines, constants }.                  *)
(***************************************************************************)
OpConstant == 0
OpReturn == 1
OpNegate == 2
OpAdd == 3
OpSubtract == 4
OpMultiply == 5
OpDivide == 6

\* impl From<u8> for OpCode: any other byte panics with "Invalid OpCode".
OpCode_from(byte) ==
    IF byte \in {OpConstant, OpReturn, OpNegate, OpAdd, OpSubtract, OpMultiply, OpDivide}
    THEN [panic |-> FALSE, op |-> byte]
    ELSE [panic |-> TRUE, op |-> byte]

Chunk_new == [code |-> <<>>, lines |-> <<>>, constants |-> ValueArray_new]

\* Mutant of write: the line is not recorded.
Chunk_write_noline(ch, byte, line) == [ch EXCEPT !.code = Append(@, byte)]

Chunk_write(ch, byte, line) ==
    [ch EXCEPT !.code = Append(@, byte), !.lines = Append(@, line)]

\* self.code[ip]: an index at or beyond the length panics.
Chunk_read(ch, offset) ==
    IF offset < Len(ch.code)
    THEN [panic |-> FALSE, byte |-> ch.code[offset + 1]]
    ELSE [panic |-> TRUE, byte |-> 0]

Chunk_write_opcode(ch, opcode, line) == Chunk_write(ch, opcode, line)

\* free() replaces code and frees the constants; lines is not touched.
Chunk_free(ch) ==
    [ch EXCEPT !.code = <<>>, !.constants = ValueArray_free(@)]

\* add_constants(value) -> u8: the pool's index, cast `as u8` (mod 256).
Chunk_add_constants(ch, value) ==
    LET w == ValueArray_write(ch.constants, value)
    IN [chunk |-> [ch EXCEPT !.constants = w.va], ret |-> w.ret % U8Range]

Chunk_get_constant(ch, index) == ValueArray_read(ch.constants, index)

(***************************************************************************)
(* chunk.rs: the disassembler.  What disassemble_instruction prints for    *)
(* one instruction is a row [offset, marker, line, name, operand]: marker  *)
(* is TRUE for the "   | " column (line is then 0), name is "" and operand *)
(* empty as long as they were not printed.  `next` is the offset returned. *)
(***************************************************************************)
OpNames ==
    [op \in {OpConstant, OpReturn, OpNegate, OpAdd, OpSubtract, OpMultiply, OpDivide} |->
        CASE op = OpConstant -> "OP_CONSTANT"
          [] op = OpReturn -> "OP_RETURN"
          [] op = OpNegate -> "OP_NEGATE"
          [] op = OpAdd -> "OP_ADD"
          [] op = OpSubtract -> "OP_SUBTRACT"
          [] op = OpMultiply -> "OP_MULTIPLY"
          [] op = OpDivide -> "OP_DIVIDE"]

\* simple_instruction: prints the name, returns offset + 1.
Chunk_simple_instruction(ch, name, offset) ==
    [panic |-> FALSE, name |-> name, operand |-> <<>>, next |-> offset + 1]

\* Mutant of constant_instruction: the operand byte is not skipped.
Chunk_constant_instruction_short(ch, name, offset) ==
    LET pv == ValueArray_print_value(ch.constants, ch.code[offset + 2])
    IN IF offset + 1 >= Len(ch.code)
       THEN [panic |-> TRUE, name |-> "", operand |-> <<>>, next |-> offset]
       ELSE IF pv.panic
            THEN [panic |-> TRUE, name |-> name, operand |-> <<ch.code[offset + 2]>>,
                  next |-> offset]
       ELSE [panic |-> FALSE, name |-> name,
             operand |-> <<ch.code[offset + 2]>> \o pv.shown, next |-> offset + 1]

\* constant_instruction: constant = code[offset + 1], prints the name, the
\* constant and print_value(constant), returns offset + 2.
Chunk_constant_instruction(ch, name, offset) ==
    LET pv == ValueArray_print_value(ch.constants, ch.code[offset + 2])
    IN IF offset + 1 >= Len(ch.code)
       THEN [panic |-> TRUE, name |-> "", operand |-> <<>>, next |-> offset]
       ELSE IF pv.panic
            THEN [panic |-> TRUE, name |-> name, operand |-> <<ch.code[offset + 2]>>,
                  next |-> offset]
       ELSE [panic |-> FALSE, name |-> name,
             operand |-> <<ch.code[offset + 2]>> \o pv.shown, next |-> offset + 2]

\* The line column of disassemble_instruction: "   | " if offset > 0 and
\* lines[offset] == lines[offset - 1], else lines[offset].
Chunk_line_column(ch, offset) ==
    IF offset > 0 /\ ch.lines[offset + 1] = ch.lines[offset]
    THEN [marker |-> TRUE, line |-> 0]
    ELSE [marker |-> FALSE, line |-> ch.lines[offset + 1]]

\* disassemble_instruction(offset): lines[offset] and code[offset] panic
\* when offset is out of range, code[offset].into() on a byte that is no
\* opcode.
Chunk_disassemble_instruction(ch, offset) ==
    LET col == Chunk_line_column(ch, offset)
        o == OpCode_from(ch.code[offset + 1])
        r == IF o.op = OpConstant
             THEN Chunk_constant_instruction(ch, OpNames[o.op], offset)
             ELSE Chunk_simple_instruction(ch, OpNames[o.op], offset)
    IN IF offset >= Len(ch.lines)
       THEN [panic |-> TRUE, next |-> offset,
             row |-> [offset |-> offset, marker |-> FALSE, line |-> 0,
                      name |-> "", operand |-> <<>>]]
       ELSE IF offset >= Len(ch.code) \/ o.panic
            THEN [panic |-> TRUE, next |-> offset,
                  row |-> [offset |-> offset, marker |-> col.marker, line |-> col.line,
                           name |-> "", operand |-> <<>>]]
       ELSE [panic |-> r.panic, next |-> r.next,
             row |-> [offset |-> offset, marker |-> col.marker, line |-> col.line,
                      name |-> r.name, operand |-> r.operand]]

\* The loop of disassemble, from offset on: the rows printed, and whether
\* the last of them ended in a panic.
RECURSIVE Chunk_disassemble_from(_, _)
Chunk_disassemble_from(ch, offset) ==
    IF offset < Len(ch.code)
    THEN LET r == Chunk_disassemble_instruction(ch, offset)
         IN IF r.panic THEN [panic |-> TRUE, rows |-> <<r.row>>]
            ELSE LET rest == Chunk_disassemble_from(ch, r.next)
                 IN [panic |-> rest.panic, rows |-> <<r.row>> \o rest.rows]
    ELSE [panic |-> FALSE, rows |-> <<>>]

Chunk_disassemble(ch) == Chunk_disassemble_from(ch, 0)

(***************************************************************************)
(* vm.rs: VM { ip, stack }.  The operators below take and return the VM    *)
(* as a record [ip, stack]; `panic` marks a Rust panic.                    *)
(***************************************************************************)
VM_new == [ip |-> 0, stack |-> <<>>]

\* Vec::pop(): None on an empty vector.
Vec_pop(stk) ==
    IF Len(stk) = 0
    THEN [none |-> TRUE, value |-> NaN, rest |-> stk]
    ELSE [none |-> FALSE, value |-> stk[Len(stk)], rest |-> SubSeq(stk, 1, Len(stk) - 1)]

\* Mutant of read_byte: ip is not advanced.
VM_read_byte_noadvance(vm, ch) ==
    LET r == Chunk_read(ch, vm.ip)
        o == OpCode_from(r.byte)
    IN IF r.panic THEN [panic |-> TRUE, why |-> "index out of bounds", vm |-> vm, op |-> 0]
       ELSE IF o.panic THEN [panic |-> TRUE, why |-> "Invalid OpCode", vm |-> vm, op |-> 0]
       ELSE [panic |-> FALSE, why |-> "", vm |-> vm, op |-> o.op]

\* read_byte: chunk.read(self.ip).into(), then ip += 1.
VM_read_byte(vm, ch) ==
    LET r == Chunk_read(ch, vm.ip)
        o == OpCode_from(r.byte)
    IN IF r.panic THEN [panic |-> TRUE, why |-> "index out of bounds", vm |-> vm, op |-> 0]
       ELSE IF o.panic THEN [panic |-> TRUE, why |-> "Invalid OpCode", vm |-> vm, op |-> 0]
       ELSE [panic |-> FALSE, why |-> "", vm |-> [vm EXCEPT !.ip = @ + 1], op |-> o.op]

\* Mutant of read_constant: the operand is read but ip is not advanced.
VM_read_constant_noadvance(vm, ch) ==
    LET r == Chunk_read(ch, vm.ip)
        c == Chunk_get_constant(ch, r.byte)
    IN IF r.panic \/ c.panic
       THEN [panic |-> TRUE, why |-> "index out of bounds", vm |-> vm, value |-> NaN]
       ELSE [panic |-> FALSE, why |-> "", vm |-> vm, value |-> c.value]

\* read_constant: index = chunk.read(self.ip), ip += 1, chunk.get_constant(index).
VM_read_constant(vm, ch) ==
    LET r == Chunk_read(ch, vm.ip)
        c == Chunk_get_constant(ch, r.byte)
    IN IF r.panic THEN [panic |-> TRUE, why |-> "index out of bounds", vm |-> vm, value |-> NaN]
       ELSE IF c.panic
            THEN [panic |-> TRUE, why |-> "index out of bounds",
                  vm |-> [vm EXCEPT !.ip = @ + 1], value |-> NaN]
       ELSE [panic |-> FALSE, why |-> "", vm |-> [vm EXCEPT !.ip = @ + 1], value |-> c.value]

\* The closures run() passes to binary_op.
Arith(op, a, b) ==
    CASE op = OpAdd -> FAdd(a, b)
      [] op = OpSubtract -> FSub(a, b)
      [] op = OpMultiply -> FMul(a, b)
      [] op = OpDivide -> FDiv(a, b)

\* Mutant of binary_op: the first pop is taken as the left operand.
VM_binary_op_swapped(stk, op) ==
    LET pb == Vec_pop(stk)
        pa == Vec_pop(pb.rest)
    IN IF pb.none THEN [panic |-> TRUE, stack |-> stk]
       ELSE IF pa.none THEN [panic |-> TRUE, stack |-> pb.rest]
       ELSE [panic |-> FALSE, stack |-> Append(pa.rest, Arith(op, pb.value, pa.value))]

\* binary_op: b = pop().unwrap(), a = pop().unwrap(), push(op(a, b)).
VM_binary_op(stk, op) ==
    LET pb == Vec_pop(stk)
        pa == Vec_pop(pb.rest)
    IN IF pb.none THEN [panic |-> TRUE, stack |-> stk]
       ELSE IF pa.none THEN [panic |-> TRUE, stack |-> pb.rest]
       ELSE [panic |-> FALSE, stack |-> Append(pa.rest, Arith(op, pa.value, pb.value))]

\* Mutant of the Negate arm: an empty stack is left as it is.
VM_negate_lenient(stk) ==
    LET p == Vec_pop(stk)
    IN IF p.none THEN [panic |-> FALSE, stack |-> stk]
       ELSE [panic |-> FALSE, stack |-> Append(p.rest, FNeg(p.value))]

\* OpCode::Negate arm: value = pop().unwrap(), push(-value).
VM_negate(stk) ==
    LET p == Vec_pop(stk)
    IN IF p.none THEN [panic |-> TRUE, stack |-> stk]
       ELSE [panic |-> FALSE, stack |-> Append(p.rest, FNeg(p.value))]

\* Mutant of the Return arm: returns Ok without popping.
VM_return_nopop(stk) == [panic |-> FALSE, stack |-> stk, shown |-> <<>>]

\* OpCode::Return arm: println!(stack.pop().unwrap()), return Ok.
VM_return(stk) ==
    LET p == Vec_pop(stk)
    IN IF p.none THEN [panic |-> TRUE, stack |-> stk, shown |-> <<>>]
       ELSE [panic |-> FALSE, stack |-> p.rest, shown |-> <<p.value>>]

(***************************************************************************)
(* The chunks the VM is run on.  A chunk is built by emitter steps, each   *)
(* either one raw write(byte, line) or the emission of a constant load:    *)
(* add_constants(value), write(Constant), write(returned index).           *)
(***************************************************************************)
\* The values the generated programs load.
Vals == {Num(0), Num(1), Num(2)}

\* The bytes the generated programs write raw: every opcode and one byte
\* that is no opcode.
RawBytes == {OpConstant, OpReturn, OpNegate, OpAdd, OpSubtract, OpMultiply, OpDivide, 7}

EmitByte(b) == [k |-> "byte", b |-> b, v |-> Num(0)]

EmitConst(v) == [k |-> "const", b |-> 0, v |-> v]

EmitSteps == {EmitByte(b) : b \in RawBytes} \cup {EmitConst(v) : v \in Vals}

Emit(ch, step) ==
    IF step.k = "byte" THEN Chunk_write(ch, step.b, 1)
    ELSE LET a == Chunk_add_constants(ch, step.v)
         IN Chunk_write(Chunk_write_opcode(a.chunk, OpConstant, 1), a.ret, 1)

RECURSIVE BuildFrom(_, _)
BuildFrom(ch, prog) ==
    IF prog = <<>> THEN ch ELSE BuildFrom(Emit(ch, Head(prog)), Tail(prog))

Build(prog) == BuildFrom(Chunk_new, prog)

\* Constant(c0), Constant(c1), Add, Constant(c2), Divide, Negate, Return.
ArithProgram(c0, c1, c2) ==
    <<EmitConst(c0), EmitConst(c1), EmitByte(OpAdd), EmitConst(c2),
      EmitByte(OpDivide), EmitByte(OpNegate), EmitByte(OpReturn)>>

\* Three constant loads, then one binary instruction, then Return.
BinaryProgram(c0, c1, c2, op) ==
    <<EmitConst(c0), EmitConst(c1), EmitConst(c2), EmitByte(op), EmitByte(OpReturn)>>

Programs ==
    BoundedSeq(EmitSteps, MaxSteps)
    \cup {ArithProgram(c0, c1, c2) : c0 \in Vals, c1 \in Vals, c2 \in Vals}
    \cup UNION {{BinaryProgram(c0, c1, c2, op) : c0 \in Vals, c1 \in Vals, c2 \in Vals}
                : op \in {OpAdd, OpSubtract, OpMultiply, OpDivide}}

(***************************************************************************)
(* scanner.rs: Scanner { source: Vec<char>, start, current, line }.        *)
(* A char is a one-character string and the source a sequence of chars.    *)
(* The record carries one more field, `panic`: TRUE once an index or a     *)
(* slice of `source` was out of range (the process has aborted); every     *)
(* operator leaves a panicked scanner as it is.                            *)
(***************************************************************************)
\* The '\0' that current() returns at the end of the source.
NUL == "NUL"

Lower ==
    {"a", "b", "c", "d", "e", "f", "g", "h", "i", "j", "k", "l", "m",
     "n", "o", "p", "q", "r", "s", "t", "u", "v", "w", "x", "y", "z"}

Upper ==
    {"A", "B", "C", "D", "E", "F", "G", "H", "I", "J", "K", "L", "M",
     "N", "O", "P", "Q", "R", "S", "T", "U", "V", "W", "X", "Y", "Z"}

Digits == {"0", "1", "2", "3", "4", "5", "6", "7", "8", "9"}

\* char::is_alphabetic, char::is_ascii_digit, char::is_alphanumeric.
IsAlphabetic(c) == c \in Lower \cup Upper

IsAsciiDigit(c) == c \in Digits

CharIsAlphanumeric(c) == IsAlphabetic(c) \/ c \in Digits

\* chars.iter().collect::<String>()
RECURSIVE Text(_)
Text(cs) == IF cs = <<>> THEN "" ELSE Head(cs) \o Text(Tail(cs))

Scanner_new(source) ==
    [source |-> source, start |-> 0, current |-> 0, line |-> 1, panic |-> FALSE]

Scanner_is_at_end(s) == s.current >= Len(s.source)

Scanner_current(s) ==
    IF Scanner_is_at_end(s) THEN NUL ELSE s.source[s.current + 1]

\* peek: None at the end, else Some(source[current + 1]); the index panics
\* when current is the last position.
Scanner_peek(s) ==
    IF Scanner_is_at_end(s) THEN [panic |-> FALSE, some |-> FALSE, c |-> NUL]
    ELSE IF s.current + 1 >= Len(s.source) THEN [panic |-> TRUE, some |-> FALSE, c |-> NUL]
    ELSE [panic |-> FALSE, some |-> TRUE, c |-> s.source[s.current + 2]]

\* advance: current += 1, returns source[current - 1] (read by the callers
\* below from the scanner before the call).
Scanner_advance(s) ==
    IF s.panic THEN s
    ELSE IF s.current + 1 > Len(s.source) THEN [s EXCEPT !.current = @ + 1, !.panic = TRUE]
    ELSE [s EXCEPT !.current = @ + 1]

Scanner_get_text(s) == Text(SubSeq(s.source, s.start + 1, s.current))

NoToken == [token_type |-> "None", lexeme |-> "", line |-> 0]

Scanner_make_token(s, token_type) ==
    [token_type |-> token_type, lexeme |-> Scanner_get_text(s), line |-> s.line]

Scanner_error_token(s, message) ==
    [token_type |-> "Error", lexeme |-> message, line |-> s.line]

Scanner_match_and_advance(s, expected) ==
    IF Scanner_is_at_end(s) THEN [s |-> s, matched |-> FALSE]
    ELSE IF s.source[s.current + 1] # expected THEN [s |-> s, matched |-> FALSE]
    ELSE [s |-> [s EXCEPT !.current = @ + 1], matched |-> TRUE]

\* string: the loop, then the check for the closing quote.
RECURSIVE Scanner_string_loop(_)
Scanner_string_loop(s) ==
    IF ~s.panic /\ Scanner_current(s) # "\"" /\ ~Scanner_is_at_end(s)
    THEN Scanner_string_loop(
            Scanner_advance(IF Scanner_current(s) = "\n"
                            THEN [s EXCEPT !.line = @ + 1] ELSE s))
    ELSE s

\* Mutant of string: the text up to the end of input is a string token.
Scanner_string_unchecked(s) ==
    LET s1 == Scanner_string_loop(s)
    IN IF s1.panic THEN [s |-> s1, tok |-> NoToken]
       ELSE IF Scanner_is_at_end(s1)
            THEN [s |-> s1, tok |-> Scanner_make_token(s1, "String")]
       ELSE LET s2 == Scanner_advance(s1)
            IN [s |-> s2, tok |-> IF s2.panic THEN NoToken
                                  ELSE Scanner_make_token(s2, "String")]

Scanner_string(s) ==
    LET s1 == Scanner_string_loop(s)
    IN IF s1.panic THEN [s |-> s1, tok |-> NoToken]
       ELSE IF Scanner_is_at_end(s1)
            THEN [s |-> s1, tok |-> Scanner_error_token(s1, "Unterminated string.")]
       ELSE LET s2 == Scanner_advance(s1)
            IN [s |-> s2, tok |-> IF s2.panic THEN NoToken
                                  ELSE Scanner_make_token(s2, "String")]

\* while self.current().is_ascii_digit() { self.advance(); }
RECURSIVE Scanner_digits(_)
Scanner_digits(s) ==
    IF ~s.panic /\ IsAsciiDigit(Scanner_current(s))
    THEN Scanner_digits(Scanner_advance(s))
    ELSE s

Scanner_number(s) ==
    LET s1 == Scanner_digits(s)
        pk == Scanner_peek(s1)
        s2 == IF s1.panic \/ Scanner_current(s1) # "." THEN s1
              ELSE IF pk.panic THEN [s1 EXCEPT !.panic = TRUE]
              ELSE IF pk.some /\ IsAsciiDigit(pk.c) THEN Scanner_digits(Scanner_advance(s1))
              ELSE s1
    IN [s |-> s2, tok |-> IF s2.panic THEN NoToken ELSE Scanner_make_token(s2, "Number")]

Scanner_is_alphanumeric(c) == CharIsAlphanumeric(c) \/ c = "_"

\* check_keyword: text = source[start..start + length]; the slice panics
\* when start + length is beyond the source.
Scanner_check_keyword(s, start, length, rest, token_type) ==
    IF start + length > Len(s.source) THEN [panic |-> TRUE, token_type |-> "Identifier"]
    ELSE IF Text(SubSeq(s.source, start + 1, start + length)) = rest
         THEN [panic |-> FALSE, token_type |-> token_type]
    ELSE [panic |-> FALSE, token_type |-> "Identifier"]

Scanner_identifier_type(s) ==
    LET c == s.source[s.start + 1]
        ident == [panic |-> FALSE, token_type |-> "Identifier"]
    IN CASE c = "a" -> Scanner_check_keyword(s, s.start, 2, "nd", "And")
         [] c = "c" -> Scanner_check_keyword(s, s.start, 4, "lass", "Class")
         [] c = "e" -> Scanner_check_keyword(s, s.start, 3, "lse", "Else")
         [] c = "f" ->
              IF s.current - s.start > 1
              THEN LET c1 == s.source[s.start + 2]
                   IN CASE c1 = "a" -> Scanner_check_keyword(s, s.start, 3, "lse", "False")
                        [] c1 = "o" -> Scanner_check_keyword(s, s.start, 1, "r", "For")
                        [] c1 = "u" -> Scanner_check_keyword(s, s.start, 1, "n", "Fun")
                        [] OTHER -> ident
              ELSE ident
         [] c = "i" -> Scanner_check_keyword(s, s.start, 1, "f", "If")
         [] c = "n" -> Scanner_check_keyword(s, s.start, 2, "il", "Nil")
         [] c = "o" -> Scanner_check_keyword(s, s.start, 1, "r", "Or")
         [] c = "p" -> Scanner_check_keyword(s, s.start, 4, "rint", "Print")
         [] c = "r" -> Scanner_check_keyword(s, s.start, 5, "eturn", "Return")
         [] c = "s" -> Scanner_check_keyword(s, s.start, 4, "uper", "Super")
         [] c = "t" ->
              IF s.current - s.start > 1
              THEN LET c1 == s.source[s.start + 2]
                   IN CASE c1 = "h" -> Scanner_check_keyword(s, s.start, 2, "is", "This")
                        [] c1 = "r" -> Scanner_check_keyword(s, s.start, 2, "ue", "True")
                        [] OTHER -> ident
              ELSE ident
         [] c = "v" -> Scanner_check_keyword(s, s.start, 2, "ar", "Var")
         [] c = "w" -> Scanner_check_keyword(s, s.start, 4, "hile", "While")
         [] OTHER -> ident

RECURSIVE Scanner_identifier_loop(_)
Scanner_identifier_loop(s) ==
    IF ~s.panic /\ Scanner_is_alphanumeric(Scanner_current(s))
    THEN Scanner_identifier_loop(Scanner_advance(s))
    ELSE s

Scanner_identifier(s) ==
    LET s1 == Scanner_identifier_loop(s)
        ty == Scanner_identifier_type(s1)
    IN IF s1.panic THEN [s |-> s1, tok |-> NoToken]
       ELSE IF ty.panic THEN [s |-> [s1 EXCEPT !.panic = TRUE], tok |-> NoToken]
       ELSE [s |-> s1, tok |-> Scanner_make_token(s1, ty.token_type)]

\* Mutant of the inner loop of skip_ignored: the comment consumes the
\* newline that ends it.
RECURSIVE Scanner_skip_comment_with_newline(_)
Scanner_skip_comment_with_newline(s) ==
    IF s.panic \/ Scanner_is_at_end(s) THEN s
    ELSE IF Scanner_current(s) = "\n" THEN Scanner_advance(s)
    ELSE Scanner_skip_comment_with_newline(Scanner_advance(s))

\* The inner loop of skip_ignored: a comment goes until the end of the line.
RECURSIVE Scanner_skip_comment(_)
Scanner_skip_comment(s) ==
    IF ~s.panic /\ Scanner_current(s) # "\n" /\ ~Scanner_is_at_end(s)
    THEN Scanner_skip_comment(Scanner_advance(s))
    ELSE s

\* Mutant of skip_ignored: the end of the input counts as the end of a line.
RECURSIVE Scanner_skip_ignored_eof_line(_)
Scanner_skip_ignored_eof_line(s) ==
    LET c == Scanner_current(s)
        pk == Scanner_peek(s)
    IN IF s.panic THEN s
       ELSE IF Scanner_is_at_end(s) THEN [s EXCEPT !.line = @ + 1]
       ELSE IF c \in {" ", "\r", "\t"}
            THEN Scanner_skip_ignored_eof_line(Scanner_advance(s))
       ELSE IF c = "\n"
            THEN Scanner_skip_ignored_eof_line(Scanner_advance([s EXCEPT !.line = @ + 1]))
       ELSE IF c = "/"
            THEN IF pk.panic THEN [s EXCEPT !.panic = TRUE]
                 ELSE IF pk.some /\ pk.c = "/"
                      THEN Scanner_skip_ignored_eof_line(Scanner_skip_comment(s))
                 ELSE s
       ELSE s

RECURSIVE Scanner_skip_ignored(_)
Scanner_skip_ignored(s) ==
    LET c == Scanner_current(s)
        pk == Scanner_peek(s)
    IN IF s.panic THEN s
       ELSE IF c \in {" ", "\r", "\t"} THEN Scanner_skip_ignored(Scanner_advance(s))
       ELSE IF c = "\n" THEN Scanner_skip_ignored(Scanner_advance([s EXCEPT !.line = @ + 1]))
       ELSE IF c = "/"
            THEN IF pk.panic THEN [s EXCEPT !.panic = TRUE]
                 ELSE IF pk.some /\ pk.c = "/"
                      THEN Scanner_skip_ignored(Scanner_skip_comment(s))
                 ELSE s
       ELSE s

\* The one-character tokens of scan_token's match.
SingleCharTokens ==
    [c \in {"(", ")", "{", "}", ";", ",", ".", "-", "+", "/", "*"} |->
        CASE c = "(" -> "LeftParen"
          [] c = ")" -> "RightParen"
          [] c = "{" -> "LeftBrace"
          [] c = "}" -> "RightBrace"
          [] c = ";" -> "Semicolon"
          [] c = "," -> "Comma"
          [] c = "." -> "Dot"
          [] c = "-" -> "Minus"
          [] c = "+" -> "Plus"
          [] c = "/" -> "Slash"
          [] c = "*" -> "Star"]

\* The tokens of scan_token's match that look one character ahead for '='.
Scanner_one_or_two(s, with_equal, without) ==
    LET m == Scanner_match_and_advance(s, "=")
    IN [s |-> m.s, tok |-> Scanner_make_token(m.s, IF m.matched THEN with_equal ELSE without)]

Scanner_scan_token(s) ==
    LET s1 == Scanner_skip_ignored(s)
        s2 == [s1 EXCEPT !.start = s1.current]
        c == s2.source[s2.current + 1]
        s3 == Scanner_advance(s2)
    IN IF s.panic \/ s1.panic THEN [s |-> s1, tok |-> NoToken]
       ELSE IF Scanner_is_at_end(s2) THEN [s |-> s2, tok |-> Scanner_make_token(s2, "Eof")]
       ELSE IF IsAlphabetic(c) THEN Scanner_identifier(s3)
       ELSE IF IsAsciiDigit(c) THEN Scanner_number(s3)
       ELSE IF c \in DOMAIN SingleCharTokens
            THEN [s |-> s3, tok |-> Scanner_make_token(s3, SingleCharTokens[c])]
       ELSE IF c = "!" THEN Scanner_one_or_two(s3, "BangEqual", "Bang")
       ELSE IF c = "=" THEN Scanner_one_or_two(s3, "EqualEqual", "Equal")
       ELSE IF c = "<" THEN Scanner_one_or_two(s3, "LessEqual", "Less")
       ELSE IF c = ">" THEN Scanner_one_or_two(s3, "GreaterEqual", "Greater")
       ELSE IF c = "\"" THEN Scanner_string(s3)
       ELSE [s |-> s3, tok |-> Scanner_error_token(s3, "Unexpected character.")]

(***************************************************************************)
(* compiler.rs: Compiler { parser: Parser { current, previous, had_error },*)
(* scanner }.  A diagnostic written to stderr is a record                  *)
(* [line, at, message].                                                    *)
(***************************************************************************)
\* Compiler::new(): Parser::default() and a scanner over "".
Compiler_new ==
    [parser |-> [current |-> NoToken, previous |-> NoToken, had_error |-> FALSE],
     scanner |-> Scanner_new(<<>>)]

\* error_at: "[line N] Error", then " at end" for Eof, nothing for an Error
\* token, " at '<lexeme>'" otherwise, then ": <message>".  It writes to
\* stderr only: had_error is not set.
Compiler_error_at(tok, message) ==
    [line |-> tok.line,
     at |-> IF tok.token_type = "Eof" THEN " at end"
            ELSE IF tok.token_type = "Error" THEN ""
            ELSE " at '" \o tok.lexeme \o "'",
     message |-> message]

Compiler_error_at_current(c, message) == Compiler_error_at(c.parser.current, message)

Compiler_error(c, message) == Compiler_error_at(c.parser.previous, message)

\* Mutant of the loop of advance: it breaks after the first token, error
\* or not.
Compiler_advance_iteration_once(c) ==
    LET r == Scanner_scan_token(c.scanner)
        c1 == [c EXCEPT !.scanner = r.s, !.parser.current = r.tok]
    IN IF r.s.panic THEN [c |-> [c EXCEPT !.scanner = r.s], pc |-> "panic", err |-> <<>>]
       ELSE IF r.tok.token_type # "Error" THEN [c |-> c1, pc |-> "check", err |-> <<>>]
       ELSE [c |-> c1, pc |-> "check",
             err |-> <<Compiler_error_at_current(c1, c1.parser.current.lexeme)>>]

\* One iteration of the loop of advance: current = scan_token(); break
\* unless it is an Error token; error_at_current(current.lexeme).
Compiler_advance_iteration(c) ==
    LET r == Scanner_scan_token(c.scanner)
        c1 == [c EXCEPT !.scanner = r.s, !.parser.current = r.tok]
    IN IF r.s.panic THEN [c |-> [c EXCEPT !.scanner = r.s], pc |-> "panic", err |-> <<>>]
       ELSE IF r.tok.token_type # "Error" THEN [c |-> c1, pc |-> "check", err |-> <<>>]
       ELSE [c |-> c1, pc |-> "advance",
             err |-> <<Compiler_error_at_current(c1, c1.parser.current.lexeme)>>]

\* compile, up to the loop of advance: scanner = Scanner::new(source), and
\* advance's previous = current.clone().
Compiler_compile_enter(c, source) ==
    [c EXCEPT !.scanner = Scanner_new(source), !.parser.previous = c.parser.current]

\* compile, after advance: Err(CompileError) if had_error, else Ok(Chunk::new()).
Compiler_compile_result(c) ==
    IF c.parser.had_error THEN "CompileError" ELSE "Ok"

(***************************************************************************)
(* vm.rs, main.rs: interpret and the exit status of file mode.             *)
(***************************************************************************)
\* interpret: compiler.compile(source); InterpretResult::Ok.  What compile
\* returned is dropped, and no chunk is run.
VM_interpret(compiled) == "Ok"

\* run_file: the match on what interpret returned.
run_file_exit(result) ==
    CASE result = "CompileError" -> 65
      [] result = "RuntimeError" -> 70
      [] result = "Ok" -> 0

(***************************************************************************)
(* The sources scanned and compiled: every string of at most MaxSrc        *)
(* characters over SourceChars, every keyword, every prefix of a keyword   *)
(* and every keyword followed by one more character, and every string of   *)
(* at most MaxSrc + 1 characters over IgnoredChars.                        *)
(***************************************************************************)
SourceChars == {"f", "o", "r", "1", ".", "/", " ", "\n", "\"", "@", "="}

Keywords ==
    {<<"a", "n", "d">>, <<"c", "l", "a", "s", "s">>, <<"e", "l", "s", "e">>,
     <<"f", "a", "l", "s", "e">>, <<"f", "o", "r">>, <<"f", "u", "n">>,
     <<"i", "f">>, <<"n", "i", "l">>, <<"o", "r">>, <<"p", "r", "i", "n", "t">>,
     <<"r", "e", "t", "u", "r", "n">>, <<"s", "u", "p", "e", "r">>,
     <<"t", "h", "i", "s">>, <<"t", "r", "u", "e">>, <<"v", "a", "r">>,
     <<"w", "h", "i", "l", "e">>}

KeywordSources ==
    UNION {{SubSeq(k, 1, n) : n \in 1..Len(k)}
           \cup {k \o <<c>> : c \in {"o", "_", "1", " ", ";"}} : k \in Keywords}

\* The characters skip_ignored skips, and the '/' of a comment.
IgnoredChars == {" ", "\t", "\r", "\n", "/"}

Sources ==
    BoundedSeq(SourceChars, MaxSrc)
    \cup KeywordSources
    \cup BoundedSeq(IgnoredChars, MaxSrc + 1)

(***************************************************************************)
(* State.                                                                  *)
(***************************************************************************)
VARIABLES
    chunk,      \* the Chunk: the one under construction, or the one being run
    ret,        \* the last call made on the Chunk and the index it returned
    calls,      \* number of calls made on the Chunk
    wlog,       \* the <<byte, line>> of every write since the last free
    frees,      \* number of free() calls made on the Chunk
    listing,    \* what the last disassemble call on the Chunk printed
    ip,         \* VM.ip
    stack,      \* VM.stack
    vpc,        \* where the VM is: "idle", "running" (inside run), "panic"
    vres,       \* the InterpretResult of the VM's last call, "none" before it returns
    out,        \* the values printed to stdout by run
    fetched,    \* the ip values at which the current run fetched an opcode
    runs,       \* number of run() calls made on the VM
    scanner,    \* the Scanner
    token,      \* the Token the last scan_token call returned
    ntok,       \* number of scan_token calls made on the Scanner
    compiler,   \* the Compiler { parser, scanner }
    cpc,        \* where compile is: "new", "advance", "check", "done", "panic"
    cres,       \* what compile returned, "none" before it returns
    stderr,     \* the diagnostics written by eprint!
    exitcode    \* the status run_file exits with, -1 before it exits

chunkVars == <<chunk, ret, calls, wlog, frees, listing>>

vmVars == <<ip, stack, vpc, vres, out, fetched, runs>>

scanVars == <<scanner, token, ntok>>

compVars == <<compiler, cpc, cres, stderr, exitcode>>

vars == <<chunkVars, vmVars, scanVars, compVars>>

NoRet == [call |-> "none", index |-> 0]

NoListing == [panic |-> FALSE, rows |-> <<>>]

ChunkIdle ==
    /\ ret = NoRet
    /\ calls = 0
    /\ wlog = <<>>
    /\ frees = 0
    /\ listing = NoListing

VMIdle ==
    /\ ip = VM_new.ip
    /\ stack = VM_new.stack
    /\ vpc = "idle"
    /\ vres = "none"
    /\ out = <<>>
    /\ fetched = <<>>
    /\ runs = 0

ScanIdle == scanner = Scanner_new(<<>>) /\ token = NoToken /\ ntok = 0

CompIdle ==
    /\ compiler = Compiler_new
    /\ cpc = "new"
    /\ cres = "none"
    /\ stderr = <<>>
    /\ exitcode = -1

(***************************************************************************)
(* SpecVM: one VM value (VM::new()), run on a chunk, possibly again.       *)
(***************************************************************************)
TheVM == [ip |-> ip, stack |-> stack]

Fetch == VM_read_byte(TheVM, chunk)

\* A caller calls vm.run(&chunk): run() starts its loop on the VM as it is.
RunCall ==
    /\ vpc = "idle"
    /\ runs < MaxRuns
    /\ vpc' = "running"
    /\ vres' = "none"
    /\ fetched' = <<>>
    /\ runs' = runs + 1
    /\ UNCHANGED <<ip, stack, out, chunkVars, scanVars, compVars>>

\* read_byte panics: ip is beyond the code, or the byte is no opcode.
RunFetchPanic ==
    /\ vpc = "running"
    /\ Fetch.panic
    /\ vpc' = "panic"
    /\ UNCHANGED <<ip, stack, vres, out, fetched, runs, chunkVars, scanVars, compVars>>

RunReturn ==
    /\ vpc = "running"
    /\ ~Fetch.panic
    /\ Fetch.op = OpReturn
    /\ LET r == VM_return(stack)
       IN /\ ip' = Fetch.vm.ip
          /\ fetched' = Append(fetched, ip)
          /\ stack' = r.stack
          /\ out' = out \o r.shown
          /\ vpc' = IF r.panic THEN "panic" ELSE "idle"
          /\ vres' = IF r.panic THEN vres ELSE "Ok"
    /\ UNCHANGED <<runs, chunkVars, scanVars, compVars>>

RunConstant ==
    /\ vpc = "running"
    /\ ~Fetch.panic
    /\ Fetch.op = OpConstant
    /\ LET r == VM_read_constant(Fetch.vm, chunk)
       IN /\ ip' = r.vm.ip
          /\ fetched' = Append(fetched, ip)
          /\ stack' = IF r.panic THEN stack ELSE Append(stack, r.value)
          /\ vpc' = IF r.panic THEN "panic" ELSE "running"
    /\ UNCHANGED <<vres, out, runs, chunkVars, scanVars, compVars>>

RunNegate ==
    /\ vpc = "running"
    /\ ~Fetch.panic
    /\ Fetch.op = OpNegate
    /\ LET r == VM_negate(stack)
       IN /\ ip' = Fetch.vm.ip
          /\ fetched' = Append(fetched, ip)
          /\ stack' = r.stack
          /\ vpc' = IF r.panic THEN "panic" ELSE "running"
    /\ UNCHANGED <<vres, out, runs, chunkVars, scanVars, compVars>>

RunBinary ==
    /\ vpc = "running"
    /\ ~Fetch.panic
    /\ Fetch.op \in {OpAdd, OpSubtract, OpMultiply, OpDivide}
    /\ LET r == VM_binary_op(stack, Fetch.op)
       IN /\ ip' = Fetch.vm.ip
          /\ fetched' = Append(fetched, ip)
          /\ stack' = r.stack
          /\ vpc' = IF r.panic THEN "panic" ELSE "running"
    /\ UNCHANGED <<vres, out, runs, chunkVars, scanVars, compVars>>

InitVM ==
    /\ chunk \in {Build(p) : p \in Programs}
    /\ ChunkIdle
    /\ VMIdle
    /\ ScanIdle
    /\ CompIdle

NextVM ==
    \/ RunCall
    \/ RunFetchPanic
    \/ RunReturn
    \/ RunConstant
    \/ RunNegate
    \/ RunBinary

SpecVM == InitVM /\ [][NextVM]_vars

\* One iteration of the loop of run.
RunStep ==
    \/ RunFetchPanic
    \/ RunReturn
    \/ RunConstant
    \/ RunNegate
    \/ RunBinary

\* The chunks whose runs are followed to their end: those of one emitter
\* step less than Programs, and the arithmetic programs.
LivePrograms ==
    BoundedSeq(EmitSteps, MaxSteps - 1)
    \cup {ArithProgram(c0, c1, c2) : c0 \in Vals, c1 \in Vals, c2 \in Vals}

InitLiveVM ==
    /\ chunk \in {Build(p) : p \in LivePrograms}
    /\ ChunkIdle
    /\ VMIdle
    /\ ScanIdle
    /\ CompIdle

\* run is sequential code: once called, its loop goes on to the next
\* iteration until it returns or panics.  Nothing obliges a caller to call.
LiveSpecVM == InitLiveVM /\ [][NextVM]_vars /\ WF_vars(RunStep)

(***************************************************************************)
(* Claims about the VM, checked under SpecVM.                              *)
(***************************************************************************)
BinaryOps == {OpAdd, OpSubtract, OpMultiply, OpDivide}

\* The opcode the current run dispatched last.
LastOp == chunk.code[fetched[Len(fetched)] + 1]

\* C1: every run starts with ip = 0 and an empty stack, whatever the
\* previous run on the same VM left behind.
C1_RunStartsClean ==
    [][(vpc = "idle" /\ vpc' = "running") => (ip' = 0 /\ stack' = <<>>)]_vars

\* C2: Add, Subtract, Multiply and Divide on a stack ending in a, b replace
\* exactly these two entries by a <op> b (a the earlier-pushed, left
\* operand); the entries below are unchanged and the depth drops by 1.
C2_BinaryOp ==
    [][(vpc = "running" /\ ~Fetch.panic /\ Fetch.op \in BinaryOps /\ Len(stack) >= 2)
        => LET n == Len(stack)
               a == stack[n - 1]
               b == stack[n]
               res == CASE Fetch.op = OpAdd -> FAdd(a, b)
                        [] Fetch.op = OpSubtract -> FSub(a, b)
                        [] Fetch.op = OpMultiply -> FMul(a, b)
                        [] Fetch.op = OpDivide -> FDiv(a, b)
           IN /\ Len(stack') = n - 1
              /\ stack'[n - 1] = res
              /\ \A i \in 1..(n - 2) : stack'[i] = stack[i]
              /\ vpc' = "running"]_vars

\* C2's case: a Subtract has just run on <<2, 1, 2>> and left <<2, -1>>.
C2_Witness ==
    /\ vpc = "running"
    /\ fetched # <<>>
    /\ LastOp = OpSubtract
    /\ stack = <<Num(2), Num(-1)>>

\* C3: the first run of Constant(c0), Constant(c1), Add, Constant(c2),
\* Divide, Negate, Return reaches Return with exactly -((c0 + c1) / c2) on
\* the stack, and ends with Ok.
C3_Arithmetic ==
    LET k == chunk.constants.values
    IN (/\ Len(k) = 3
        /\ chunk = Build(ArithProgram(k[1], k[2], k[3]))
        /\ runs = 1)
       => LET expect == FNeg(FDiv(FAdd(k[1], k[2]), k[3]))
          IN /\ vpc # "panic"
             /\ (vpc = "running" /\ ip = Len(chunk.code) - 1) => stack = <<expect>>
             /\ vpc = "idle" => (vres = "Ok" /\ out = <<expect>>)

\* C3's case: -((1 + 2) / 2) was computed and the run returned Ok.
C3_Witness ==
    /\ chunk = Build(ArithProgram(Num(1), Num(2), Num(2)))
    /\ runs = 1
    /\ vpc = "idle"
    /\ vres = "Ok"
    /\ out = <<(<<-3, 2>>)>>

\* C4, as claimed: the first run of a chunk that is a single Return ends Ok
\* with the stack empty.
C4_ReturnOnlyOk ==
    (chunk.code = <<OpReturn>> /\ runs = 1 /\ vpc # "running")
    => (vpc = "idle" /\ vres = "Ok" /\ stack = <<>>)

\* C4, amended: the first run of a chunk that is a single Return ends in a
\* fatal abort (Return pops the result it prints, and the stack is empty);
\* the stack is still empty, nothing was printed and no result returned.
C4_ReturnOnlyAborts ==
    (chunk.code = <<OpReturn>> /\ runs = 1 /\ vpc # "running")
    => (vpc = "panic" /\ vres = "none" /\ stack = <<>> /\ out = <<>> /\ fetched = <<0>>)

\* C4's case: the run of the single Return has ended.
C4_Witness ==
    /\ chunk.code = <<OpReturn>>
    /\ runs = 1
    /\ vpc = "panic"
    /\ fetched = <<0>>

(***************************************************************************)
(* SpecChunk: one Chunk and the calls write, add_constants, free and       *)
(* disassemble made on it.  The Chunk starts fresh, or with a pool that    *)
(* earlier add_constants calls filled up to (nearly) the 256 values a u8   *)
(* indexes.                                                                *)
(***************************************************************************)
WriteBytes == {OpConstant, OpReturn, 255}

WriteLines == {1, 2}

\* The chunk that add_constants(0.0), add_constants(1.0), ... (n calls)
\* lead to from Chunk::new(): each call appends its value to the pool.
Filled(n) ==
    [Chunk_new EXCEPT !.constants = [values |-> [i \in 1..n |-> Num(i - 1)]]]

ChunkWrite(byte, line) ==
    /\ calls < MaxCalls
    /\ chunk' = Chunk_write(chunk, byte, line)
    /\ ret' = [call |-> "write", index |-> 0]
    /\ wlog' = Append(wlog, <<byte, line>>)
    /\ calls' = calls + 1
    /\ UNCHANGED <<frees, listing, vmVars, scanVars, compVars>>

ChunkAddConstants(value) ==
    /\ calls < MaxCalls
    /\ LET r == Chunk_add_constants(chunk, value)
       IN /\ chunk' = r.chunk
          /\ ret' = [call |-> "add_constants", index |-> r.ret]
    /\ calls' = calls + 1
    /\ UNCHANGED <<wlog, frees, listing, vmVars, scanVars, compVars>>

ChunkFree ==
    /\ calls < MaxCalls
    /\ chunk' = Chunk_free(chunk)
    /\ ret' = [call |-> "free", index |-> 0]
    /\ wlog' = <<>>
    /\ frees' = frees + 1
    /\ calls' = calls + 1
    /\ UNCHANGED <<listing, vmVars, scanVars, compVars>>

\* chunk.disassemble(name): the listing is printed, the chunk is not changed.
ChunkDisassemble ==
    /\ calls < MaxCalls
    /\ listing' = Chunk_disassemble(chunk)
    /\ ret' = [call |-> "disassemble", index |-> 0]
    /\ calls' = calls + 1
    /\ UNCHANGED <<chunk, wlog, frees, vmVars, scanVars, compVars>>

InitChunk ==
    /\ chunk \in {Filled(n) : n \in {0} \cup ((U8Range - PoolMargin)..U8Range)}
    /\ ChunkIdle
    /\ VMIdle
    /\ ScanIdle
    /\ CompIdle

NextChunk ==
    \/ \E byte \in WriteBytes, line \in WriteLines : ChunkWrite(byte, line)
    \/ \E value \in Vals : ChunkAddConstants(value)
    \/ ChunkFree
    \/ ChunkDisassemble

SpecChunk == InitChunk /\ [][NextChunk]_vars

(***************************************************************************)
(* Claims about the Chunk, checked under SpecChunk.                        *)
(***************************************************************************)
\* C5: on a chunk that only write and add_constants were called on, code
\* and lines have the same length after every call, read(i) is the byte of
\* the i-th write (and lines[i] its line), so add_constants changes
\* neither code nor lines.
C5_WriteReadRoundTrip ==
    frees = 0
    => /\ Len(chunk.code) = Len(chunk.lines)
       /\ Len(chunk.code) = Len(wlog)
       /\ \A i \in 0..(Len(wlog) - 1) :
            /\ Chunk_read(chunk, i) = [panic |-> FALSE, byte |-> wlog[i + 1][1]]
            /\ chunk.lines[i + 1] = wlog[i + 1][2]

\* C5's case: two different bytes were written, a constant added after them.
C5_Witness ==
    /\ frees = 0
    /\ Len(wlog) = 2
    /\ wlog[1] = <<255, 2>>
    /\ wlog[2] = <<OpReturn, 1>>
    /\ ret.call = "add_constants"

\* C6: free() empties code, lines and the constant pool together, so code
\* and lines keep the same length after free and after later writes, and
\* lines[i] is the line passed to the write that produced code[i].
C6_FreeClearsAll ==
    /\ ret.call = "free"
       => (chunk.code = <<>> /\ chunk.lines = <<>> /\ chunk.constants.values = <<>>)
    /\ Len(chunk.code) = Len(chunk.lines)
    /\ \A i \in 1..Len(chunk.code) : chunk.lines[i] = wlog[i][2]

\* C7: add_constants on a pool that already holds 256 values returns no
\* index: an index returned is the slot the value was stored in.
C7_CapacityError ==
    ret.call = "add_constants"
    => /\ Len(chunk.constants.values) <= U8Range
       /\ ret.index = Len(chunk.constants.values) - 1

(***************************************************************************)
(* SpecScan: one Scanner over a source, and the scan_token calls on it.    *)
(***************************************************************************)
ScanToken ==
    /\ ~scanner.panic
    /\ ntok < Len(scanner.source) + ExtraCalls
    /\ LET r == Scanner_scan_token(scanner)
       IN /\ ~r.s.panic
          /\ scanner' = r.s
          /\ token' = r.tok
    /\ ntok' = ntok + 1
    /\ UNCHANGED <<chunkVars, vmVars, compVars>>

\* scan_token panics: an index or a slice of source is out of range.
ScanPanic ==
    /\ ~scanner.panic
    /\ ntok < Len(scanner.source) + ExtraCalls
    /\ LET r == Scanner_scan_token(scanner)
       IN /\ r.s.panic
          /\ scanner' = r.s
          /\ token' = NoToken
    /\ ntok' = ntok + 1
    /\ UNCHANGED <<chunkVars, vmVars, compVars>>

InitScan ==
    /\ scanner \in {Scanner_new(src) : src \in Sources}
    /\ token = NoToken
    /\ ntok = 0
    /\ chunk = Chunk_new
    /\ ChunkIdle
    /\ VMIdle
    /\ CompIdle

NextScan ==
    \/ ScanToken
    \/ ScanPanic

SpecScan == InitScan /\ [][NextScan]_vars

(***************************************************************************)
(* SpecCompile: run_file's vm.interpret(&buf): one Compiler                *)
(* (Compiler::new()) and its compile(source) call, one step per iteration  *)
(* of the loop of advance, then interpret's return and the exit.           *)
(***************************************************************************)
CompileCall(source) ==
    /\ cpc = "new"
    /\ compiler' = Compiler_compile_enter(compiler, source)
    /\ cpc' = "advance"
    /\ UNCHANGED <<cres, stderr, exitcode, chunkVars, vmVars, scanVars>>

CompileAdvance ==
    /\ cpc = "advance"
    /\ \E r \in {Compiler_advance_iteration(compiler)} :
          /\ compiler' = r.c
          /\ cpc' = r.pc
          /\ stderr' = stderr \o r.err
    /\ UNCHANGED <<cres, exitcode, chunkVars, vmVars, scanVars>>

CompileReturn ==
    /\ cpc = "check"
    /\ cres' = Compiler_compile_result(compiler)
    /\ chunk' = Chunk_new
    /\ cpc' = "done"
    /\ UNCHANGED <<compiler, stderr, exitcode, ret, calls, wlog, frees, listing, vmVars, scanVars>>

\* run_file: vm.interpret(&buf) returns, and the process exits.
RunFileExit ==
    /\ cpc = "done"
    /\ exitcode' = run_file_exit(VM_interpret(cres))
    /\ cpc' = "exited"
    /\ UNCHANGED <<compiler, cres, stderr, chunkVars, vmVars, scanVars>>

InitCompile ==
    /\ chunk = Chunk_new
    /\ ChunkIdle
    /\ VMIdle
    /\ ScanIdle
    /\ CompIdle

NextCompile ==
    \/ cpc = "new" /\ \E source \in Sources : CompileCall(source)
    \/ CompileAdvance
    \/ CompileReturn
    \/ RunFileExit

SpecCompile == InitCompile /\ [][NextCompile]_vars

(***************************************************************************)
(* Claims about the compiler, checked under SpecCompile.                   *)
(***************************************************************************)
\* The source compile was called with.
Compiled == compiler.scanner.source

\* The number of Error tokens scan_token yields for the scanner s, called
\* until it returns Eof (or panics).
RECURSIVE ErrorTokens(_)
ErrorTokens(s) ==
    LET r == Scanner_scan_token(s)
    IN IF r.s.panic \/ r.tok.token_type = "Eof" THEN 0
       ELSE (IF r.tok.token_type = "Error" THEN 1 ELSE 0) + ErrorTokens(r.s)

\* The diagnostics of the Error tokens scan_token yields for the scanner s
\* before its first token that is not an Error token.
RECURSIVE LeadingErrors(_)
LeadingErrors(s) ==
    LET r == Scanner_scan_token(s)
    IN IF r.s.panic \/ r.tok.token_type # "Error" THEN <<>>
       ELSE <<[line |-> r.tok.line, at |-> "", message |-> r.tok.lexeme]>>
            \o LeadingErrors(r.s)

\* C8: compile returns a compile failure whenever it reported an Error
\* token, and returns Ok, with an empty chunk, only when it reported none.
C8_FailureOnLexicalError ==
    cpc = "done"
    => /\ stderr # <<>> => cres = "CompileError"
       /\ cres = "Ok" => (stderr = <<>> /\ chunk = Chunk_new)

\* C9, as claimed: compile reports one diagnostic for every Error token
\* the scanner yields for the source, wherever it lies in the source.
C9_AllErrorsReported ==
    cpc = "done" => Len(stderr) = ErrorTokens(Scanner_new(Compiled))

\* C9, amended: compile reports one diagnostic (the token's line and
\* message, no "at" part) for each Error token the scanner yields before
\* its first token that is not an Error token, and none for a later one.
C9_LeadingErrorsReported ==
    cpc \in {"check", "done", "panic"} => stderr = LeadingErrors(Scanner_new(Compiled))

\* C9's case: "@1@" was compiled; the first error was reported, the one
\* after the number was not.
C9_Witness ==
    /\ cpc = "done"
    /\ Compiled = <<"@", "1", "@">>
    /\ ErrorTokens(Scanner_new(Compiled)) = 2
    /\ stderr = <<[line |-> 1, at |-> "", message |-> "Unexpected character."]>>

(***************************************************************************)
(* Claims about the scanner, checked under SpecScan.                       *)
(***************************************************************************)
\* The token kind of each of the 16 keywords.
KeywordKind ==
    [k \in {"and", "class", "else", "false", "for", "fun", "if", "nil", "or",
            "print", "return", "super", "this", "true", "var", "while"} |->
        CASE k = "and" -> "And"
          [] k = "class" -> "Class"
          [] k = "else" -> "Else"
          [] k = "false" -> "False"
          [] k = "for" -> "For"
          [] k = "fun" -> "Fun"
          [] k = "if" -> "If"
          [] k = "nil" -> "Nil"
          [] k = "or" -> "Or"
          [] k = "print" -> "Print"
          [] k = "return" -> "Return"
          [] k = "super" -> "Super"
          [] k = "this" -> "This"
          [] k = "true" -> "True"
          [] k = "var" -> "Var"
          [] k = "while" -> "While"]

\* The kinds scan_token gives an identifier-shaped lexeme.
IdentifierKinds == {"Identifier"} \cup {KeywordKind[k] : k \in DOMAIN KeywordKind}

\* C10: the token of an identifier-shaped lexeme has the keyword's kind if
\* the lexeme is exactly one of the 16 keywords, and is an identifier
\* otherwise (fo and foo are identifiers, for is For).
C10_KeywordsExact ==
    token.token_type \in IdentifierKinds
    => token.token_type = IF token.lexeme \in DOMAIN KeywordKind
                          THEN KeywordKind[token.lexeme]
                          ELSE "Identifier"

\* C11: no scan_token call reads the source at or beyond its end: a
\* lookahead past the end yields an absent character, and no index or
\* slice of the source is out of range.
C11_NoOutOfRange == ~scanner.panic

\* C12: once scan_token has returned an Eof token, every later call returns
\* the same Eof token (empty lexeme, same line) and leaves the scanner, its
\* cursor and its line counter as they are.
C12_EofIdempotent ==
    [][token.token_type = "Eof"
        => (token' = token /\ token'.lexeme = "" /\ scanner' = scanner)]_vars

\* C12's case: "=\n" was scanned, and the third call returned Eof again.
C12_Witness ==
    /\ scanner.source = <<"=", "\n">>
    /\ ntok = 3
    /\ token = [token_type |-> "Eof", lexeme |-> "", line |-> 2]

\* The number of newline characters in cs.
RECURSIVE Newlines(_)
Newlines(cs) ==
    IF cs = <<>> THEN 0
    ELSE (IF Head(cs) = "\n" THEN 1 ELSE 0) + Newlines(Tail(cs))

\* C13: the line of every token scan_token returns is the line its first
\* character is on: 1 plus the number of newlines before the token's start,
\* also for a string or an unterminated string that spans several lines.
C13_TokenLineAtStart ==
    token # NoToken
    => token.line = 1 + Newlines(SubSeq(scanner.source, 1, scanner.start))

\* cs from its first newline on (empty if it has none).
RECURSIVE FromNewline(_)
FromNewline(cs) ==
    IF cs = <<>> \/ Head(cs) = "\n" THEN cs ELSE FromNewline(Tail(cs))

\* cs is made only of spaces, tabs, carriage returns, newlines and //
\* comments, a comment going up to the next newline or the end.
RECURSIVE Ignorable(_)
Ignorable(cs) ==
    IF cs = <<>> THEN TRUE
    ELSE IF Head(cs) \in {" ", "\t", "\r", "\n"} THEN Ignorable(Tail(cs))
    ELSE IF Len(cs) >= 2 /\ cs[1] = "/" /\ cs[2] = "/" THEN Ignorable(FromNewline(cs))
    ELSE FALSE

\* C14: on a source made only of whitespace and // comments the first
\* scan_token call returns Eof, with the empty lexeme and the line 1 plus
\* the number of newlines in the source.
C14_IgnoredSourceEof ==
    (ntok = 1 /\ Ignorable(scanner.source))
    => token = [token_type |-> "Eof", lexeme |-> "",
                line |-> 1 + Newlines(scanner.source)]

\* C14's case: a carriage return, a comment and the newline that ends it.
C14_Witness ==
    /\ scanner.source = <<"\r", "/", "/", "\n">>
    /\ ntok = 1
    /\ token = [token_type |-> "Eof", lexeme |-> "", line |-> 2]

\* The position (1-based) of the first double quote of cs at or after
\* position i, 0 if there is none.
RECURSIVE QuoteFrom(_, _)
QuoteFrom(cs, i) ==
    IF i > Len(cs) THEN 0 ELSE IF cs[i] = "\"" THEN i ELSE QuoteFrom(cs, i + 1)

\* The token scan_token returned is the error token of an unterminated string.
Unterminated ==
    token = [token_type |-> "Error", lexeme |-> "Unterminated string.",
             line |-> scanner.line]

\* What scan_token returned for a token that starts with a double quote.
StringOutcome ==
    (/\ token # NoToken
     /\ scanner.start < Len(scanner.source)
     /\ scanner.source[scanner.start + 1] = "\"")
    => LET q == QuoteFrom(scanner.source, scanner.start + 2)
       IN IF q = 0
          THEN Unterminated /\ scanner.current = Len(scanner.source)
          ELSE /\ token.token_type = "String"
               /\ token.lexeme = Text(SubSeq(scanner.source, scanner.start + 1, q))
               /\ scanner.current = q

\* C15: a token that starts with a double quote is, when the input ends
\* before a closing quote, the Error token "Unterminated string." with the
\* cursor at the end of input, and the next call returns Eof; when the
\* closing quote exists it is a String token whose lexeme runs from the
\* opening to the closing quote, both included.
C15_StringTokens ==
    [][StringOutcome' /\ (Unterminated => token'.token_type = "Eof")]_vars

\* C15's case: the unterminated string "f was scanned, then Eof returned.
C15_Witness ==
    /\ scanner.source = <<"\"", "f">>
    /\ ntok = 2
    /\ token.token_type = "Eof"
    /\ scanner.start = 2

(***************************************************************************)
(* Claims about file mode, checked under SpecCompile.                      *)
(***************************************************************************)
\* C16: in file mode the process exits with 65 when a lexical error was
\* reported for the input and with 0 when the input compiled and ran; a
\* compile failure never exits with 0.
C16_ExitCodes ==
    cpc = "exited"
    => /\ stderr # <<>> => exitcode = 65
       /\ cres = "CompileError" => exitcode # 0
       /\ exitcode \in {0, 65, 70}

(***************************************************************************)
(* Claims about the disassembler, checked under SpecChunk.                 *)
(***************************************************************************)
\* C17: on a chunk built by write and add_constants, each row of the
\* listing shows the continuation marker if and only if it is not the first
\* row and its instruction has the line of the instruction of the row
\* before (the line written with that instruction's opcode); otherwise it
\* shows the line of its own instruction.
C17_ContinuationMarker ==
    (ret.call = "disassemble" /\ frees = 0)
    => \A i \in 1..Len(listing.rows) :
          LET row == listing.rows[i]
          IN IF i > 1 /\ chunk.lines[row.offset + 1]
                          = chunk.lines[listing.rows[i - 1].offset + 1]
             THEN row.marker
             ELSE ~row.marker /\ row.line = chunk.lines[row.offset + 1]

(***************************************************************************)
(* Claims about how a run ends, checked under SpecVM.                      *)
(***************************************************************************)
\* The next fetch is at or beyond the end of the code.
PastEnd == ip >= Len(chunk.code)

\* The byte the next fetch reads is no opcode.
InvalidOpcode == ip < Len(chunk.code) /\ chunk.code[ip + 1] \notin 0..6

\* The next instruction is one of ops.
NextIs(ops) == ip < Len(chunk.code) /\ chunk.code[ip + 1] \in ops

\* The next instruction pops more values than the stack holds.
PopsEmpty ==
    \/ NextIs({OpReturn, OpNegate}) /\ Len(stack) = 0
    \/ NextIs(BinaryOps) /\ Len(stack) < 2

\* The next instruction is a Constant whose operand byte is missing or is
\* no index of the constant pool.
BadOperand ==
    /\ NextIs({OpConstant})
    /\ \/ ip + 1 >= Len(chunk.code)
       \/ chunk.code[ip + 2] >= Len(chunk.constants.values)

\* C18, as claimed: a run ends either with Ok, by executing a Return, or
\* in a fatal abort, by fetching a byte that is no opcode or by popping an
\* empty stack, and in no other way.
C18_TwoOutcomes ==
    [][(vpc = "running" /\ vpc' # "running")
        => \/ vpc' = "idle" /\ vres' = "Ok" /\ NextIs({OpReturn})
           \/ vpc' = "panic" /\ (InvalidOpcode \/ PopsEmpty)]_vars

\* C18, amended: a run ends either with Ok, exactly when it executes a
\* Return on a stack that is not empty, or in a fatal abort, exactly when
\* it fetches a byte that is no opcode, pops an empty stack, fetches at or
\* beyond the end of the code, or executes a Constant whose operand byte
\* is missing or no index of the pool; every other step continues the run.
C18_Outcomes ==
    [][vpc = "running"
        => IF PastEnd \/ InvalidOpcode \/ PopsEmpty \/ BadOperand
           THEN vpc' = "panic" /\ vres' = "none"
           ELSE IF NextIs({OpReturn})
                THEN vpc' = "idle" /\ vres' = "Ok"
           ELSE vpc' = "running" /\ vres' = "none"]_vars

\* C18's case: Constant 1, Negate was run; the fetch after the last
\* instruction ended the run in a fatal abort.
C18_Witness ==
    /\ chunk.code = <<OpConstant, 0, OpNegate>>
    /\ runs = 1
    /\ vpc = "panic"
    /\ ip = 3
    /\ stack = <<Num(-1)>>

\* C19: every run terminates, in Ok or in a fatal abort: an iteration that
\* continues the run fetched inside the code and left ip strictly greater,
\* and a run that was started eventually is no longer running.
C19_RunTerminates ==
    /\ [][(vpc = "running" /\ vpc' = "running")
           => (ip < Len(chunk.code) /\ ip' > ip)]_vars
    /\ (vpc = "running" ~> (vpc = "panic" \/ (vpc = "idle" /\ vres = "Ok")))

\* C19's case: a chunk of two constant loads and no Return was run to the
\* end of its code.
C19_Witness ==
    /\ chunk.code = <<OpConstant, 0, OpConstant, 1>>
    /\ runs = 1
    /\ vpc = "panic"
    /\ fetched = <<0, 2>>
    /\ ip = 4

(***************************************************************************)
(* Claims relating the disassembler and the VM, checked under SpecVM.      *)
(***************************************************************************)
\* code, from offset o on, is made of opcodes, each Constant followed by
\* its operand byte.
RECURSIVE WellFormed(_, _)
WellFormed(code, o) ==
    IF o >= Len(code) THEN TRUE
    ELSE IF code[o + 1] = OpConstant
         THEN o + 1 < Len(code) /\ WellFormed(code, o + 2)
    ELSE code[o + 1] \in 1..6 /\ WellFormed(code, o + 1)

\* The offsets at which disassemble decodes the instructions of ch.
DisassembledOffsets(ch) ==
    LET rows == Chunk_disassemble(ch).rows
    IN [i \in 1..Len(rows) |-> rows[i].offset]

\* The offsets os up to and including the first one that holds a Return.
UpToReturn(ch, os) ==
    LET rets == {i \in 1..Len(os) : ch.code[os[i] + 1] = OpReturn}
    IN IF rets = {} THEN os
       ELSE SubSeq(os, 1, CHOOSE i \in rets : \A j \in rets : i <= j)

C21_CursorProgress ==
    [][/\ scanner'.start <= scanner'.current
       /\ scanner'.current <= Len(scanner'.source)
       /\ scanner'.current >= scanner.current
       /\ (token' # NoToken /\ token'.token_type # "Eof")
          => scanner'.current > scanner.current
       /\ (scanner'.panic \/ ntok' >= Len(scanner'.source) + 1)
          => token'.token_type = "Eof"]_vars

====
